---- MODULE Spec2Model ----
(***************************************************************************)
(* A model of the GSCI-like index engine of src/gsci/index.py:             *)
(* GSCIIndexCalculator.compute with its helpers _normalize, _maps_close,   *)
(* _get_price, _safe_price and _weights_from_quantities.                   *)
(*                                                                         *)
(* Python floats are modelled as exact rationals <<n, d>> (d > 0, lowest   *)
(* terms), so "equal" below means equal as real numbers.  The four         *)
(* injected providers (cpw, price, mde, collateral_rate) are pure          *)
(* functions unknown to the engine: the variable env records the answer    *)
(* of each provider to each query, chosen when the query is first made     *)
(* and repeated on every later query.                                      *)
(***************************************************************************)
EXTENDS Integers, Sequences, FiniteSets, TLC

(***************************************************************************)
(* Bounds of the model.                                                    *)
(***************************************************************************)
\* Longest date sequence handed to compute.
MaxLen == 3

\* The dates (ordinals) and commodity identifiers the inputs are drawn from.
Dates == {1, 2, 3}
Commodities == {"A", "B"}
\* A fixed enumeration order of the commodities (Python iterates dicts and
\* sets in an order the claims do not depend on).
CommoditySeq == <<"A", "B">>

(***************************************************************************)
(* The state.                                                              *)
(***************************************************************************)
VARIABLES
    config,     \* self.config and whether self.collateral_rate is set
    env,        \* the providers' answers so far
    pc,         \* "idle", "loop", "returned" or "raised"
    args,       \* the arguments of the call
    date_list,  \* the local date_list
    idx,        \* date_list[idx] is the date the loop handles next
    level,      \* the local level
    state,      \* the IndexState of the call
    locals,     \* the locals of the last loop iteration
    calls,      \* the provider invocations of the call, in order
    error,      \* the exception that ended the call, "" if none
    again,      \* whether the caller will call compute once more
    earlier,    \* the arguments and the result of the previous call
    raw,        \* the argument of the last _normalize call made on its own
    normalized, \* and its result
    calculator, \* the last calculate_contract_weights call and its result
    manager,    \* the SPGSCIPortfolioManager, with its last call and result
    front_call  \* the last _get_front_month_contract call and its result

vars == <<config, env, pc, args, date_list, idx, level, state, locals,
          calls, error, again, earlier, raw, normalized, calculator, manager,
          front_call>>

(***************************************************************************)
(* Exact rational arithmetic standing for float arithmetic.                *)
(***************************************************************************)
RECURSIVE GCD(_, _)
GCD(a, b) == IF b = 0 THEN a ELSE GCD(b, a % b)

Abs(x) == IF x < 0 THEN -x ELSE x

Rat(n, d) ==
    LET g == GCD(Abs(n), Abs(d))
        s == IF d < 0 THEN -1 ELSE 1
    IN  <<s * (n \div g), s * (d \div g)>>

Zero == <<0, 1>>
One == <<1, 1>>
\* Common factors are taken out before multiplying, which keeps the
\* intermediate products within machine integers.
RAdd(a, b) ==
    LET g == GCD(a[2], b[2])
    IN  Rat(a[1] * (b[2] \div g) + b[1] * (a[2] \div g), (a[2] \div g) * b[2])
RSub(a, b) == RAdd(a, <<-b[1], b[2]>>)
RMul(a, b) ==
    LET g1 == GCD(Abs(a[1]), b[2])
        g2 == GCD(Abs(b[1]), a[2])
    IN  Rat((a[1] \div g1) * (b[1] \div g2), (a[2] \div g2) * (b[2] \div g1))
RDiv(a, b) ==
    RMul(a, IF b[1] < 0 THEN <<-b[2], -b[1]>> ELSE <<b[2], b[1]>>)
RLe(a, b) == a[1] * b[2] <= b[1] * a[2]
RLt(a, b) == a[1] * b[2] < b[1] * a[2]
RMax(a, b) == IF RLe(a, b) THEN b ELSE a
RAbs(a) == <<Abs(a[1]), a[2]>>

\* sum(m.values()) of a dict m
\* (a denominator is positive: the test makes TLC compute the partial sum
\* before it goes on)
RECURSIVE SumKeys(_, _, _)
SumKeys(m, keys, acc) ==
    IF keys = {} THEN acc
    ELSE LET k == CHOOSE x \in keys : TRUE
             sum == RAdd(acc, m[k])
         IN  IF sum[2] > 0 THEN SumKeys(m, keys \ {k}, sum) ELSE sum

SumMap(m) == SumKeys(m, DOMAIN m, Zero)

\* dict.get(k, default)
Get(m, k, default) == IF k \in DOMAIN m THEN m[k] ELSE default

\* The commodities of a set in the fixed enumeration order.
Ordered(S) == SelectSeq(CommoditySeq, LAMBDA c : c \in S)

(***************************************************************************)
(* _normalize (index.py 29-34).                                            *)
(***************************************************************************)
\* _normalize without the clamp of index.py 30
NormalizeNoClamp(weights) ==
    LET s == SumMap(weights)
    IN  IF RLe(s, Zero) THEN [c \in DOMAIN weights |-> Zero]
        ELSE [c \in DOMAIN weights |-> RDiv(weights[c], s)]

\* the clamp alone, the division by the sum left out
NormalizeClampOnly(weights) ==
    [c \in DOMAIN weights |-> RMax(Zero, weights[c])]

Normalize(weights) ==
    LET nonneg == [c \in DOMAIN weights |-> RMax(Zero, weights[c])]
        s == SumMap(nonneg)
    IN  IF RLe(s, Zero) THEN [c \in DOMAIN nonneg |-> Zero]
        ELSE [c \in DOMAIN nonneg |-> RDiv(nonneg[c], s)]

(***************************************************************************)
(* _maps_close (index.py 37-44), tol = 1e-10.  For a difference n/d the    *)
(* test n/d > 1/10^10 is n * 10^10 > d, computed as                        *)
(* n * 10^5 > d \div 10^5 to stay within machine integers.                 *)
(***************************************************************************)
TolRoot == 100000

\* the comparison of index.py 42 with a tolerance of 1/2
ExceedsTolCoarse(x) == x[1] * 2 > x[2]

ExceedsTol(x) == x[1] * TolRoot > x[2] \div TolRoot

\* the comparison of index.py 42 turned round
MapsCloseInverted(a, b) ==
    \A k \in DOMAIN a \cup DOMAIN b :
        ExceedsTol(RAbs(RSub(Get(a, k, Zero), Get(b, k, Zero))))

MapsClose(a, b) ==
    \A k \in DOMAIN a \cup DOMAIN b :
        ~ExceedsTol(RAbs(RSub(Get(a, k, Zero), Get(b, k, Zero))))

(***************************************************************************)
(* _weights_from_quantities (index.py 212-221).                            *)
(***************************************************************************)
WeightsFromQuantities(quantities, prices) ==
    LET keys == DOMAIN quantities \cup DOMAIN prices
        values == [c \in keys |->
                      RMul(Get(quantities, c, Zero), Get(prices, c, Zero))]
        total == SumMap(values)
    IN  IF RLe(total, Zero) THEN [c \in keys |-> Zero]
        ELSE [c \in keys |-> RDiv(values[c], total)]

(***************************************************************************)
(* date_list = sorted(_to_date(d) for d in dates) (index.py 90).  Dates    *)
(* are modelled by their ordinals, on which _to_date is the identity.      *)
(***************************************************************************)
RECURSIVE Insert(_, _)
Insert(d, s) ==
    IF s = <<>> THEN <<d>>
    ELSE IF d <= Head(s) THEN <<d>> \o s
    ELSE <<Head(s)>> \o Insert(d, Tail(s))

\* date_list built without sorted()
SortDatesMissing(dates) == dates

RECURSIVE SortDates(_)
SortDates(dates) ==
    IF dates = <<>> THEN <<>> ELSE Insert(Head(dates), SortDates(Tail(dates)))

\* the emptiness check left out
DatesEmptyUnchecked(dates) == FALSE

\* "if not dates" (index.py 88)
DatesEmpty(dates) == Len(dates) = 0

(***************************************************************************)
(* Configuration and arguments.                                            *)
(***************************************************************************)
\* GSCIConfig.start_level (index.py 49)
StartLevel == 100

\* The absent optional argument (initial_level = None).
None == <<0, 0>>

\* last_rebalance_date = None
NoDate == [year |-> 0, month |-> 0, day |-> 0]

\* level = float(initial_level or self.config.start_level) (index.py 93):
\* "or" takes the configured level for None and for a falsy 0.0 alike.
InitialLevel(initial_level, start_level) ==
    IF initial_level = None \/ initial_level = Zero THEN start_level
    ELSE initial_level

(***************************************************************************)
(* The price provider raising is modelled by this answer.                  *)
(***************************************************************************)
Raise == <<1, 0>>

(***************************************************************************)
(* A context threads what the helper calls change: the price cache of the  *)
(* IndexState, the log of provider invocations and whether an exception    *)
(* is propagating.                                                         *)
(***************************************************************************)
Log(ctx, call) == [ctx EXCEPT !.calls = Append(@, call)]

\* _get_price (index.py 199-203)
GetPrice(e, ctx, d, c) ==
    IF ctx.err THEN ctx
    ELSE IF <<d, c>> \in DOMAIN ctx.cache THEN ctx
    ELSE IF e.price[<<d, c>>] = Raise
         THEN [Log(ctx, <<"price", d, c>>) EXCEPT !.err = TRUE]
         ELSE [Log(ctx, <<"price", d, c>>) EXCEPT
                  !.cache = (<<d, c>> :> e.price[<<d, c>>]) @@ @]

\* _safe_price (index.py 205-210): the exception is swallowed
SafePrice(e, ctx, d, c) ==
    IF ctx.err THEN ctx ELSE [GetPrice(e, ctx, d, c) EXCEPT !.err = FALSE]

\* a fallback of 0.0 in place of 1.0
SafeValueZero(ctx, d, c) ==
    IF <<d, c>> \in DOMAIN ctx.cache THEN ctx.cache[<<d, c>>] ELSE Zero

\* the value _safe_price returns: the cached price, or 1.0 after an exception
SafeValue(ctx, d, c) ==
    IF <<d, c>> \in DOMAIN ctx.cache THEN ctx.cache[<<d, c>>] ELSE One

\* {c: self._get_price(state, d, c) for c in ...} (index.py 98, 116)
RECURSIVE GetPrices(_, _, _, _)
GetPrices(e, ctx, d, cs) ==
    IF cs = <<>> THEN ctx
    ELSE GetPrices(e, GetPrice(e, ctx, d, Head(cs)), d, Tail(cs))

\* the loop of index.py 120-122: _get_price(t, c), then mde(t, c)
RECURSIVE EffectiveLoop(_, _, _, _)
EffectiveLoop(e, ctx, t, cs) ==
    IF cs = <<>> THEN ctx
    ELSE LET c1 == GetPrice(e, ctx, t, Head(cs))
             c2 == IF c1.err THEN c1 ELSE Log(c1, <<"mde", t, Head(cs)>>)
         IN  EffectiveLoop(e, c2, t, Tail(cs))

\* the mde(t, c) calls of the comprehension of index.py 150
RECURSIVE MdeCalls(_, _, _)
MdeCalls(ctx, t, cs) ==
    IF cs = <<>> THEN ctx
    ELSE MdeCalls(Log(ctx, <<"mde", t, Head(cs)>>), t, Tail(cs))

\* the _safe_price(state, t_prev, c) calls of index.py 156 and 179: the
\* default argument of dict.get is evaluated for every c
RECURSIVE SafePrices(_, _, _, _)
SafePrices(e, ctx, d, cs) ==
    IF cs = <<>> THEN ctx
    ELSE SafePrices(e, SafePrice(e, ctx, d, Head(cs)), d, Tail(cs))

(***************************************************************************)
(* IndexState (types.py 39-52).  order is the insertion order of the keys  *)
(* of levels (a Python dict keeps it).                                     *)
(***************************************************************************)
EmptyState ==
    [levels |-> <<>>, weights |-> <<>>, quantities |-> <<>>,
     price_cache |-> <<>>, order |-> <<>>]

\* state.levels[t] = ...; state.quantities[t] = ...; state.weights[t] = ...
\* (index.py 107-109, 192-194)
Record(st, cache, t, lv, q, w) ==
    [levels |-> (t :> lv) @@ st.levels,
     weights |-> (t :> w) @@ st.weights,
     quantities |-> (t :> q) @@ st.quantities,
     price_cache |-> cache,
     order |-> IF t \in DOMAIN st.levels THEN st.order ELSE Append(st.order, t)]

NoLocals ==
    [t_prev |-> 0, t |-> 0, reconstitution |-> FALSE, er_return |-> Zero,
     disrupted |-> {}, total_prev |-> Zero, fixed_notional |-> Zero,
     remaining_notional |-> Zero]

(***************************************************************************)
(* The bootstrap at t0 (index.py 95-109); st is the IndexState created at  *)
(* index.py 92.                                                            *)
(***************************************************************************)
\* an IndexState kept on the calculator and used again
ReusedIndexState == state

\* state = IndexState(levels={}, weights={}, quantities={}, price_cache={})
NewIndexState == EmptyState

\* the quantity bought without dividing by the price
BootstrapQuantityUnpriced(w, lv, price_c) == RMul(w, lv)

\* qty = 0.0 if price_c == 0 else (w * level) / price_c (index.py 103)
BootstrapQuantity(w, lv, price_c) ==
    IF price_c = Zero THEN Zero ELSE RDiv(RMul(w, lv), price_c)

Bootstrap(e, st, dl, lv, log) ==
    LET t0 == dl[1]
        cpw_t0 == Normalize(e.cpw[t0])
        ctx0 == [cache |-> st.price_cache,
                 calls |-> Append(log, <<"cpw", t0, "">>), err |-> FALSE]
        ctx1 == GetPrices(e, ctx0, t0, Ordered(DOMAIN cpw_t0))
        p_t0 == [c \in DOMAIN cpw_t0 |-> ctx1.cache[<<t0, c>>]]
        quantities_t0 ==
            [c \in DOMAIN cpw_t0 |-> BootstrapQuantity(cpw_t0[c], lv, p_t0[c])]
        weights_t0 == WeightsFromQuantities(quantities_t0, p_t0)
    IN  IF ctx1.err
        THEN [error |-> "ProviderError", state |-> EmptyState, level |-> lv,
              calls |-> ctx1.calls]
        ELSE [error |-> "", level |-> lv, calls |-> ctx1.calls,
              state |-> Record(st, ctx1.cache, t0, lv,
                               quantities_t0, weights_t0)]

(***************************************************************************)
(* One iteration of the date loop, t_prev -> t (index.py 112-194).         *)
(* cfg is the calculator's configuration, st the IndexState so far, lv     *)
(* the local "level", log the provider invocations so far.                 *)
(***************************************************************************)
\* the rate of the current date taken instead
CollateralDateNow(t_prev, t) == t

\* r = self.collateral_rate(t_prev) (index.py 138)
CollateralDate(t_prev, t) == t_prev

\* the check for a missing provider left out
MissingRateIgnored(cfg) == FALSE

\* "if self.collateral_rate is None: raise ValueError" in TOTAL_RETURN mode
\* (index.py 135-137)
MissingRate(cfg) == cfg.mode = "TR" /\ ~cfg.collateral

\* The value of the call at index.py 138, which is reached only with a
\* provider configured.
Rate(e, cfg, d) == IF cfg.collateral THEN e.rate[d] ELSE Zero

\* quantities_t[c] = quantities_prev.get(c, 0.0) for c in disrupted
\* (index.py 173-174)
Frozen(quantities_prev, c) == Get(quantities_prev, c, Zero)

\* the close of the day taken, disrupted or not
EffectivePriceMarket(disrupted, p_prev_c, p_t) == p_t

\* p_eff_t[c] = p_prev[c] if self.mde(t, c) else p_t (index.py 122)
EffectivePrice(disrupted, p_prev_c, p_t) == IF disrupted THEN p_prev_c ELSE p_t

\* a portfolio without value booked as a total loss
ErReturnLost(value_prev, value_t) ==
    IF RLe(value_prev, Zero) THEN RSub(Zero, One)
    ELSE RSub(RDiv(value_t, value_prev), One)

\* er_return (index.py 126-130)
ErReturn(value_prev, value_t) ==
    IF RLe(value_prev, Zero) THEN Zero
    ELSE RSub(RDiv(value_t, value_prev), One)

\* the return applied to the start level, not to the level of t_prev
LevelFromStart(lv, er_return) == RMul(Rat(StartLevel, 1), RAdd(One, er_return))

\* level_new = level * (1.0 + er_return) (index.py 132)
LevelNew(lv, er_return) == RMul(lv, RAdd(One, er_return))

\* the rate added to the level, not applied to it
CollateralAdded(level_new, r) == RAdd(level_new, r)

\* level_new *= (1.0 + r) (index.py 139)
Collateralized(level_new, r) == RMul(level_new, RAdd(One, r))

DateStep(e, cfg, st, lv, log, t_prev, t) ==
    LET quantities_prev == st.quantities[t_prev]
        held == DOMAIN quantities_prev
        ctx0 == [cache |-> st.price_cache, calls |-> log, err |-> FALSE]
        \* Prices (113-122)
        ctx1 == GetPrices(e, ctx0, t_prev, Ordered(held))
        ctx2 == EffectiveLoop(e, ctx1, t, Ordered(held))
        p_prev == [c \in held |-> ctx2.cache[<<t_prev, c>>]]
        p_eff_t == [c \in held |->
                       EffectivePrice(e.mde[<<t, c>>], p_prev[c],
                                      ctx2.cache[<<t, c>>])]
        \* Previous portfolio value and return (124-132)
        value_prev ==
            SumMap([c \in held |-> RMul(quantities_prev[c], p_prev[c])])
        value_t ==
            SumMap([c \in held |-> RMul(quantities_prev[c], p_eff_t[c])])
        er_return == ErReturn(value_prev, value_t)
        level_er == LevelNew(lv, er_return)
        \* Collateral (134-139)
        tr == cfg.mode = "TR"
        level_new ==
            IF tr
            THEN Collateralized(level_er,
                                Rate(e, cfg, CollateralDate(t_prev, t)))
            ELSE level_er
        ctx3 == IF tr THEN Log(ctx2, <<"rate", CollateralDate(t_prev, t), "">>)
                ELSE ctx2
        \* Reconstitution test (141-144)
        cpw_prev == Normalize(e.cpw[t_prev])
        cpw_now == Normalize(e.cpw[t])
        ctx4 == Log(Log(ctx3, <<"cpw", t_prev, "">>), <<"cpw", t, "">>)
        is_reconstitution == ~MapsClose(cpw_prev, cpw_now)
        \* Reconstitution (147-182)
        cpw_keys == DOMAIN cpw_prev \cup DOMAIN cpw_now
        ctx5 == MdeCalls(ctx4, t, Ordered(cpw_keys))
        disrupted == {c \in cpw_keys : e.mde[<<t, c>>]}
        all_commodities == held \cup DOMAIN cpw_now
        ctx6 == SafePrices(e, ctx5, t_prev, Ordered(all_commodities))
        prev_price == [c \in all_commodities |->
                          IF c \in held THEN p_prev[c]
                          ELSE SafeValue(ctx6, t_prev, c)]
        prev_values == [c \in all_commodities |->
                           RMul(Get(quantities_prev, c, Zero), prev_price[c])]
        total_prev == SumMap(prev_values)
        fixed_notional ==
            SumMap([c \in disrupted |-> Get(prev_values, c, Zero)])
        non_disrupted == all_commodities \ disrupted
        target_non_disrupted ==
            Normalize([c \in non_disrupted |-> Get(cpw_now, c, Zero)])
        remaining_notional == RMax(RSub(total_prev, fixed_notional), Zero)
        ctx7 == SafePrices(e, ctx6, t_prev, Ordered(non_disrupted))
        reconstituted ==
            [c \in disrupted \cup non_disrupted |->
                IF c \in disrupted THEN Frozen(quantities_prev, c)
                ELSE LET w == Get(target_non_disrupted, c, Zero)
                         notional_c == RMul(w, remaining_notional)
                     IN  IF prev_price[c] = Zero THEN Zero
                         ELSE RDiv(notional_c, prev_price[c])]
        quantities_t ==
            IF is_reconstitution THEN reconstituted ELSE quantities_prev
        ctx8 == IF is_reconstitution THEN ctx7 ELSE ctx4
        \* Weights at end of day (187-188)
        weights_t == WeightsFromQuantities(quantities_t, p_eff_t)
        failed == [error |-> "", state |-> EmptyState, level |-> lv,
                   calls |-> log, locals |-> NoLocals]
    IN  IF ctx2.err
        THEN [failed EXCEPT !.error = "ProviderError", !.calls = ctx2.calls]
        ELSE IF MissingRate(cfg)
        THEN [failed EXCEPT !.error = "ValueError", !.calls = ctx2.calls]
        ELSE [error |-> "",
              state |-> Record(st, ctx8.cache, t, level_new, quantities_t,
                               weights_t),
              level |-> level_new,
              calls |-> ctx8.calls,
              locals |->
                  [t_prev |-> t_prev, t |-> t,
                   reconstitution |-> is_reconstitution,
                   er_return |-> er_return,
                   disrupted |-> IF is_reconstitution THEN disrupted ELSE {},
                   total_prev |->
                       IF is_reconstitution THEN total_prev ELSE Zero,
                   fixed_notional |->
                       IF is_reconstitution THEN fixed_notional ELSE Zero,
                   remaining_notional |->
                       IF is_reconstitution THEN remaining_notional
                       ELSE Zero]]

(***************************************************************************)
(* compute as a function of the providers' answers e, the configuration    *)
(* and the arguments (index.py 83-196): what a whole call returns.         *)
(***************************************************************************)
RECURSIVE DateLoop(_, _, _, _, _)
DateLoop(e, cfg, r, dl, i) ==
    IF r.error # "" \/ i > Len(dl) THEN r
    ELSE LET s == DateStep(e, cfg, r.state, r.level, r.calls, dl[i - 1], dl[i])
         IN  DateLoop(e, cfg,
                      [error |-> s.error, state |-> s.state,
                       level |-> s.level, calls |-> s.calls],
                      dl, i + 1)

Run(e, cfg, dates, initial_level) ==
    LET dl == SortDates(dates)
        lv == InitialLevel(initial_level, cfg.start_level)
    IN  DateLoop(e, cfg, Bootstrap(e, EmptyState, dl, lv, <<>>), dl, 2)

(***************************************************************************)
(* What the providers may answer, and what compute may be called with.     *)
(***************************************************************************)
R(n) == <<n, 1>>

RawMaps ==
    { <<>>, [c \in {"A"} |-> R(1)], [c \in {"B"} |-> R(1)],
      [c \in {"A", "B"} |-> R(1)] }
\* the same with a map of zero sum
DegenerateMaps == RawMaps \cup { [c \in {"B"} |-> Zero] }
\* maps and their multiples by 3, and a map of unequal weights
ScaledMaps ==
    { [c \in {"A"} |-> R(1)], [c \in {"A"} |-> R(3)],
      [c \in {"A", "B"} |-> R(1)], [c \in {"A", "B"} |-> R(3)],
      [c \in {"A", "B"} |-> IF c = "A" THEN R(1) ELSE R(3)] }
\* A is the numeraire: only the price of B moves, drops to zero or is
\* unavailable.
PriceAnswers(k) ==
    IF k[2] = "A" THEN {R(1)}
    ELSE CASE config.inputs \in {"regular", "distinct", "scaled"} ->
                  {R(1), R(2)}
           [] config.inputs = "raising" -> {R(1), Raise}
           [] config.inputs = "degenerate" -> {R(1), Zero}
RateAnswers == {Zero, Rat(1, 10)}
InitialLevels == {None, R(50)}
\* the level 0.0 and another
DegenerateLevels == {Zero, R(50)}

\* GSCIIndexCalculator(cpw, price, mde) with the default GSCIConfig.  The
\* field inputs names the family the provider answers and the arguments
\* are drawn from: "regular" (positive prices), "raising" (the price
\* provider may raise), "degenerate" (zero prices, zero weights, a zero
\* initial level), "distinct" (regular, no date given twice) or "scaled"
\* (distinct dates, weight maps and their multiples).
ExcessReturn ==
    [mode |-> "ER", collateral |-> FALSE, start_level |-> R(StartLevel),
     inputs |-> "regular"]
\* GSCIConfig(mode = TOTAL_RETURN), with and without collateral_rate
TotalReturn ==
    [mode |-> "TR", collateral |-> TRUE, start_level |-> R(StartLevel),
     inputs |-> "regular"]
TotalReturnNoRate ==
    [mode |-> "TR", collateral |-> FALSE, start_level |-> R(StartLevel),
     inputs |-> "regular"]
\* the default configuration over a price provider that may raise
ExcessReturnRaising == [ExcessReturn EXCEPT !.inputs = "raising"]
\* the default configuration over degenerate inputs
ExcessReturnDegenerate == [ExcessReturn EXCEPT !.inputs = "degenerate"]
\* total return with collateral over distinct dates
TotalReturnDistinct == [TotalReturn EXCEPT !.inputs = "distinct"]
\* the default configuration over weight maps and their multiples
ExcessReturnScaled == [ExcessReturn EXCEPT !.inputs = "scaled"]

Range(s) == {s[i] : i \in DOMAIN s}
IsAscending(s) == \A i \in 1..(Len(s) - 1) : s[i] <= s[i + 1]
IsStrictlyAscending(s) == \A i \in 1..(Len(s) - 1) : s[i] < s[i + 1]

\* Date sequences in any order, duplicates allowed, over the first one, two
\* or three dates.
DateSeqs ==
    {s \in UNION {[1..n -> Dates] : n \in 0..MaxLen} :
        Range(s) = 1..Cardinality(Range(s))}

NoEnv == [cpw |-> <<>>, price |-> <<>>, mde |-> <<>>, rate |-> <<>>]

\* The answers a provider gives to the queries among asked not made before.
Answers(provider, k) ==
    CASE provider = "cpw" ->
             IF config.inputs = "degenerate" THEN DegenerateMaps
             ELSE IF config.inputs = "scaled" THEN ScaledMaps
             ELSE RawMaps
      [] provider = "price" -> PriceAnswers(k)
      [] provider = "mde" -> BOOLEAN
      [] provider = "rate" -> RateAnswers

Fresh(asked, provider, known) ==
    LET new == asked \ DOMAIN known
    IN  {f \in [new -> UNION {Answers(provider, k) : k \in new}] :
            \A k \in new : f[k] \in Answers(provider, k)}

\* no _get_front_month_contract call made yet
NoFrontCall == [calculation_date |-> NoDate, front_month |-> 0, front_year |-> 0]

\* no calculate_contract_weights call made yet
NoWeightsCall == [calculation_date |-> NoDate, contract_weights |-> <<>>]

\* SPGSCIPortfolioManager.__init__ (sp_gsci_implementation.py 483-492);
\* target_date, target_notional and positions are the arguments and the
\* result of the last construct_portfolio call.
NewPortfolioManager ==
    [portfolio_weights |-> <<>>, last_rebalance_date |-> NoDate,
     target_date |-> NoDate, target_notional |-> None, positions |-> <<>>]

NoArgs == [dates |-> {}, ascending |-> TRUE, initial_level |-> None]
NoCall == [dates |-> <<>>, initial_level |-> None, state |-> EmptyState]

InitWith(cfgs, more) ==
    /\ config \in cfgs
    /\ env = NoEnv
    /\ pc = "idle"
    /\ args = NoArgs
    /\ date_list = <<>>
    /\ idx = 0
    /\ level = Zero
    /\ state = EmptyState
    /\ locals = NoLocals
    /\ calls = <<>>
    /\ error = ""
    /\ again = more
    /\ earlier = NoCall
    /\ raw = <<>>
    /\ normalized = <<>>
    /\ calculator = NoWeightsCall
    /\ manager = NewPortfolioManager
    /\ front_call = NoFrontCall

\* The arguments of a call.  Excess-return runs of a single call take every
\* date sequence and initial level; total-return runs, runs over a raising
\* price provider and the first of two calls take the ascending sequences
\* and no initial level; runs over degenerate inputs take the ascending
\* sequences and the initial levels 0.0 and 50; runs over distinct dates
\* take the strictly ascending sequences and the initial level 50; a second
\* call repeats the first or asks for the first date alone.
Inputs ==
    IF pc = "returned"
    THEN {[dates |-> date_list, initial_level |-> args.initial_level],
          [dates |-> <<1>>, initial_level |-> None]}
    ELSE IF config.inputs = "degenerate"
    THEN [dates : {q \in DateSeqs : IsAscending(q)},
          initial_level : DegenerateLevels]
    ELSE IF config.inputs \in {"distinct", "scaled"}
    THEN [dates : {q \in DateSeqs : IsStrictlyAscending(q)},
          initial_level : {R(50)}]
    ELSE IF config.mode = "TR" \/ again \/ config.inputs = "raising"
    THEN {[dates |-> s, initial_level |-> None] :
             s \in {q \in DateSeqs : IsAscending(q)}}
    ELSE [dates : DateSeqs, initial_level : InitialLevels]

\* compute(dates, initial_level) up to the loop (index.py 83-109)
Compute(dates, initial_level) ==
    /\ pc = "idle" \/ (pc = "returned" /\ again)
    /\ args' = [dates |-> Range(dates), ascending |-> IsAscending(dates),
                initial_level |-> initial_level]
    /\ earlier' = IF pc = "returned"
                  THEN [dates |-> date_list,
                        initial_level |-> args.initial_level,
                        state |-> state]
                  ELSE earlier
    /\ again' = (again /\ pc = "idle")
    /\ locals' = NoLocals
    /\ UNCHANGED <<config, raw, normalized, calculator, manager, front_call>>
    /\ IF DatesEmpty(dates)
       THEN \* raise ValueError("dates must be non-empty")
            /\ pc' = "raised"
            /\ error' = "ValueError"
            /\ date_list' = <<>>
            /\ idx' = 0
            /\ level' = Zero
            /\ state' = EmptyState
            /\ calls' = <<>>
            /\ UNCHANGED env
       ELSE IF Len(SortDates(dates)) = 0
       THEN \* date_list[0] of an empty list
            /\ pc' = "raised"
            /\ error' = "IndexError"
            /\ date_list' = <<>>
            /\ idx' = 0
            /\ level' = InitialLevel(initial_level, config.start_level)
            /\ state' = EmptyState
            /\ calls' = <<>>
            /\ UNCHANGED env
       ELSE LET dl == SortDates(dates)
                t0 == dl[1]
                lv == InitialLevel(initial_level, config.start_level)
            IN  \E w \in Fresh({t0}, "cpw", env.cpw) :
                    LET cpw1 == w @@ env.cpw
                    IN  \E p \in Fresh({t0} \X DOMAIN cpw1[t0], "price",
                                       env.price) :
                        \E e \in {[env EXCEPT !.cpw = cpw1,
                                              !.price = p @@ @]} :
                        \E b \in {Bootstrap(e, NewIndexState, dl, lv, <<>>)} :
                            /\ env' = e
                            /\ date_list' = dl
                            /\ idx' = 2
                            /\ level' = b.level
                            /\ state' = b.state
                            /\ calls' = b.calls
                            /\ error' = b.error
                            /\ pc' = IF b.error # "" THEN "raised"
                                     ELSE IF Len(dl) = 1 THEN "returned"
                                     ELSE "loop"

\* one iteration of "for t_prev, t in zip(date_list[:-1], date_list[1:])"
\* (index.py 112-194), and "return state" after the last
Step ==
    /\ pc = "loop"
    /\ LET t_prev == date_list[idx - 1]
           t == date_list[idx]
           held == DOMAIN state.quantities[t_prev]
       IN  \E w \in Fresh({t}, "cpw", env.cpw) :
               LET cpw1 == w @@ env.cpw
                   recon == ~MapsClose(Normalize(cpw1[t_prev]),
                                       Normalize(cpw1[t]))
                   keys == IF recon
                           THEN DOMAIN cpw1[t_prev] \cup DOMAIN cpw1[t]
                           ELSE {}
               IN  \E p \in Fresh(({t_prev, t} \X held)
                                     \cup ({t_prev} \X keys),
                                  "price", env.price),
                      m \in Fresh({t} \X (held \cup keys), "mde", env.mde),
                      r \in Fresh(IF config.mode = "TR" /\ config.collateral
                                  THEN {CollateralDate(t_prev, t)} ELSE {},
                                  "rate", env.rate) :
                       \E e \in {[cpw |-> cpw1, price |-> p @@ env.price,
                                  mde |-> m @@ env.mde,
                                  rate |-> r @@ env.rate]} :
                       \E s \in {DateStep(e, config, state, level, calls,
                                          t_prev, t)} :
                           /\ env' = e
                           /\ level' = s.level
                           /\ state' = s.state
                           /\ calls' = s.calls
                           /\ locals' = s.locals
                           /\ error' = s.error
                           /\ idx' = idx + 1
                           /\ pc' = IF s.error # "" THEN "raised"
                                    ELSE IF idx = Len(date_list)
                                    THEN "returned"
                                    ELSE "loop"
    /\ UNCHANGED <<config, args, date_list, again, earlier, raw, normalized,
                   calculator, manager, front_call>>

Next ==
    \/ \E a \in Inputs : Compute(a.dates, a.initial_level)
    \/ Step

Init == InitWith({ExcessReturn}, FALSE)
InitTR == InitWith({TotalReturn, TotalReturnNoRate}, FALSE)
InitCalls == InitWith({ExcessReturn}, TRUE)
InitRaising == InitWith({ExcessReturnRaising}, FALSE)
InitDegenerate == InitWith({ExcessReturnDegenerate}, FALSE)
InitModes == InitWith({TotalReturnDistinct}, FALSE)
InitScaled == InitWith({ExcessReturnScaled}, FALSE)

\* Excess-return runs of one compute call.
Spec == Init /\ [][Next]_vars
\* Total-return runs of one compute call.
SpecTR == InitTR /\ [][Next]_vars
\* Two compute calls on one calculator.
SpecCalls == InitCalls /\ [][Next]_vars
\* Excess-return runs over a price provider that may raise.
SpecRaising == InitRaising /\ [][Next]_vars
\* Excess-return runs over degenerate inputs.
SpecDegenerate == InitDegenerate /\ [][Next]_vars
\* Total-return runs over distinct dates.
SpecModes == InitModes /\ [][Next]_vars
\* Excess-return runs over weight maps and their multiples.
SpecScaled == InitScaled /\ [][Next]_vars

(***************************************************************************)
(* _normalize called on its own, on any raw weight map.                    *)
(***************************************************************************)
RawKeys == {"A", "B", "C"}
RawWeights == {R(-1), Zero, R(1), R(3), Rat(1, 2)}
RawInputs == UNION {[K -> RawWeights] : K \in SUBSET RawKeys}

NormalizeCall(w) ==
    /\ raw' = w
    /\ normalized' = Normalize(w)
    /\ UNCHANGED <<config, env, pc, args, date_list, idx, level, state,
                   locals, calls, error, again, earlier, calculator, manager,
                   front_call>>

NextNormalize == \E w \in RawInputs : NormalizeCall(w)

SpecNormalize == Init /\ [][NextNormalize]_vars

(***************************************************************************)
(* SPGSCICalculator and SPGSCIPortfolioManager                             *)
(* (sp_gsci_implementation.py).  A date is a record of year, month, day.   *)
(***************************************************************************)
\* self.commodity_weights (sp_gsci_implementation.py 104-129), in insertion
\* order, the weights in thousandths
CommodityTable ==
    << <<"WTI", 243>>, <<"BRENT", 150>>, <<"RBOB", 78>>, <<"HEATING", 54>>,
       <<"NATURAL", 86>>, <<"COPPER", 63>>, <<"ALUMINUM", 31>>,
       <<"ZINC", 18>>, <<"NICKEL", 16>>, <<"LEAD", 8>>, <<"GOLD", 31>>,
       <<"SILVER", 8>>, <<"CORN", 63>>, <<"WHEAT", 31>>, <<"SOYBEANS", 31>>,
       <<"SOYBEAN_OIL", 16>>, <<"SOYBEAN_MEAL", 16>>, <<"COTTON", 16>>,
       <<"COFFEE", 16>>, <<"SUGAR", 16>>, <<"COCOA", 8>>,
       <<"LIVE_CATTLE", 31>>, <<"LEAN_HOGS", 16>>, <<"FEEDER_CATTLE", 8>> >>

commodity_weights ==
    [c \in {CommodityTable[i][1] : i \in DOMAIN CommodityTable} |->
        LET i == CHOOSE j \in DOMAIN CommodityTable : CommodityTable[j][1] = c
        IN  Rat(CommodityTable[i][2], 1000)]

\* get_cpw (sp_gsci_implementation.py 137-162)
get_cpw(commodity, contract_month, contract_year, calculation_date) ==
    Get(commodity_weights, commodity, Rat(1, 100))

\* get_price (sp_gsci_implementation.py 164-194)
get_price(symbol, d) ==
    [symbol |-> symbol, date |-> d, open_price |-> R(100),
     high_price |-> R(105), low_price |-> R(95), close_price |-> R(102),
     volume |-> 1000, open_interest |-> 5000]

\* the month after, the year never turning
FrontMonthUnwrapped(calculation_date) ==
    <<calculation_date.month + 1, calculation_date.year>>

\* _get_front_month_contract (sp_gsci_implementation.py 251-274)
GetFrontMonthContract(calculation_date) ==
    LET front_month == calculation_date.month + 1
        front_year == calculation_date.year
    IN  IF front_month > 12 THEN <<1, front_year + 1>>
        ELSE <<front_month, front_year>>

\* f"{commodity}{front_month:02d}{front_year}" (sp_gsci_implementation.py 241)
ContractSymbol(commodity, front_month, front_year) ==
    commodity \o (IF front_month < 10 THEN "0" ELSE "") \o ToString(front_month)
              \o ToString(front_year)

\* the loop of sp_gsci_implementation.py 233-242: a symbol written more
\* than once keeps the value written last
RawContractWeights(calculation_date) ==
    LET front == GetFrontMonthContract(calculation_date)
        suffix == ContractSymbol("", front[1], front[2])
        symbol == [i \in DOMAIN CommodityTable |->
                      CommodityTable[i][1] \o suffix]
        last(s) == CHOOSE i \in DOMAIN CommodityTable :
                       /\ symbol[i] = s
                       /\ \A j \in (i + 1)..Len(CommodityTable) :
                              symbol[j] # s
    IN  [contract_symbol \in {symbol[i] : i \in DOMAIN CommodityTable} |->
            LET commodity == CommodityTable[last(contract_symbol)][1]
                base_weight == commodity_weights[commodity]
                cpw_value == get_cpw(commodity, front[1], front[2],
                                     calculation_date)
            IN  RMul(cpw_value, base_weight)]

\* the weights returned as they are
ContractWeightsAsBuilt(contract_weights) == contract_weights

\* "Normalize weights to sum to 1" (sp_gsci_implementation.py 244-247)
NormalizeContractWeights(contract_weights) ==
    LET total_weight == SumMap(contract_weights)
    IN  IF RLt(Zero, total_weight)
        THEN [k \in DOMAIN contract_weights |->
                 RDiv(contract_weights[k], total_weight)]
        ELSE contract_weights

\* calculate_contract_weights (sp_gsci_implementation.py 221-249)
calculate_contract_weights(calculation_date) ==
    NormalizeContractWeights(
        RawContractWeights(calculation_date))

\* the loop of sp_gsci_implementation.py 509-516
PortfolioPositions(contract_weights, target_date, target_notional) ==
    LET priced == {symbol \in DOMAIN contract_weights :
                      RLt(Zero, get_price(symbol, target_date).close_price)}
    IN  [symbol \in priced |->
            RDiv(RMul(target_notional, contract_weights[symbol]),
                 get_price(symbol, target_date).close_price)]

\* the date of the earlier rebalance kept
RebalanceDateKept(mgr, target_date) == mgr.last_rebalance_date

\* self.last_rebalance_date = target_date (sp_gsci_implementation.py 519)
RebalanceDate(mgr, target_date) == target_date

\* The calculation dates and the notionals of the calls.
CalendarDates == [year : {2024}, month : 1..12, day : {15}]
Notionals == {R(-1000), Zero, R(1000)}

\* a call of calculate_contract_weights on its own
CalculateContractWeights(calculation_date) ==
    /\ calculator' =
           [calculation_date |-> calculation_date,
            contract_weights |-> calculate_contract_weights(calculation_date)]
    /\ UNCHANGED <<config, env, pc, args, date_list, idx, level, state,
                   locals, calls, error, again, earlier, raw, normalized,
                   manager, front_call>>

\* construct_portfolio (sp_gsci_implementation.py 494-521)
ConstructPortfolio(target_date, target_notional) ==
    /\ \E contract_weights \in {calculate_contract_weights(target_date)} :
           manager' =
               [portfolio_weights |-> contract_weights,
                last_rebalance_date |-> RebalanceDate(manager, target_date),
                target_date |-> target_date,
                target_notional |-> target_notional,
                positions |-> PortfolioPositions(contract_weights, target_date,
                                                 target_notional)]
    /\ UNCHANGED <<config, env, pc, args, date_list, idx, level, state,
                   locals, calls, error, again, earlier, raw, normalized,
                   calculator, front_call>>

NextPortfolio ==
    \/ \E d \in CalendarDates : CalculateContractWeights(d)
    \/ \E d \in CalendarDates, n \in Notionals : ConstructPortfolio(d, n)

SpecPortfolio == Init /\ [][NextPortfolio]_vars

\* The calculation dates of _get_front_month_contract called on its own.
FrontDates == [year : 2023..2025, month : 1..12, day : {1, 15, 28}]

\* a call of _get_front_month_contract on its own
FrontMonthCall(calculation_date) ==
    /\ \E contract \in {GetFrontMonthContract(calculation_date)} :
           front_call' = [calculation_date |-> calculation_date,
                          front_month |-> contract[1], front_year |-> contract[2]]
    /\ UNCHANGED <<config, env, pc, args, date_list, idx, level, state,
                   locals, calls, error, again, earlier, raw, normalized,
                   calculator, manager>>

NextFrontMonth == \E d \in FrontDates : FrontMonthCall(d)

SpecFrontMonth == Init /\ [][NextFrontMonth]_vars

(***************************************************************************)
(* Vocabulary of the properties.                                           *)
(***************************************************************************)
Running == pc \in {"loop", "returned"}

\* The normalized target weights of date d.
Target(d) == Normalize(env.cpw[d])

\* a and b agree within 1e-10 on every key, an absent key counting as 0.
WithinTol(a, b) ==
    \A k \in DOMAIN a \cup DOMAIN b :
        LET diff == RAbs(RSub(Get(a, k, Zero), Get(b, k, Zero)))
        IN  diff[1] * TolRoot <= diff[2] \div TolRoot

\* The date-steps recorded so far: i stands for order[i] -> order[i + 1].
DateSteps == 1..(Len(state.order) - 1)
Prev(i) == state.order[i]
Now(i) == state.order[i + 1]
Holding(i) == WithinTol(Target(Prev(i)), Target(Now(i)))

\* The disruption provider flags commodity c on date d.
Flagged(d, c) == <<d, c>> \in DOMAIN env.mde /\ env.mde[<<d, c>>]

\* The price of c on d; a price nobody has asked for counts as 0.
Known(d, c) ==
    IF <<d, c>> \in DOMAIN env.price /\ env.price[<<d, c>>] # Raise
    THEN env.price[<<d, c>>]
    ELSE Zero

(***************************************************************************)
(* C1.  Buy-and-hold: on every date-step t-1 -> t whose normalized target  *)
(* weights agree within 1e-10 on every key, quantities(t) equals           *)
(* quantities(t-1) exactly, whatever the prices and flags at t are.        *)
(***************************************************************************)
BuyAndHold ==
    Running =>
        \A i \in DateSteps :
            Holding(i) => state.quantities[Now(i)] = state.quantities[Prev(i)]

\* A holding step over which the price of B moved while B was held and
\* flagged as disrupted.
BuyAndHoldWitness ==
    /\ Running
    /\ \E i \in DateSteps :
           /\ Holding(i)
           /\ "B" \in DOMAIN state.quantities[Prev(i)]
           /\ state.quantities[Prev(i)]["B"] # Zero
           /\ Flagged(Now(i), "B")
           /\ Known(Now(i), "B") # Known(Prev(i), "B")

(***************************************************************************)
(* C2.  Reconstitution freeze: on every reconstitution date t, every       *)
(* commodity that the disruption provider flags on t and that was held at  *)
(* t-1 keeps its quantity, also when it is in neither target-weight map.   *)
(***************************************************************************)
ReconstitutionFreeze ==
    Running =>
        \A i \in DateSteps :
            ~Holding(i) =>
                \A c \in DOMAIN state.quantities[Prev(i)] :
                    Flagged(Now(i), c) =>
                        /\ c \in DOMAIN state.quantities[Now(i)]
                        /\ state.quantities[Now(i)][c] =
                               state.quantities[Prev(i)][c]

(***************************************************************************)
(* C3.  For every date d of the IndexState the reported weights sum to 1,  *)
(* or they are all zero and the total portfolio value at d is 0.  The      *)
(* value at d marks a flagged commodity at the previous date's price.      *)
(***************************************************************************)
MarkPrice(i, c) ==
    IF i > 1 /\ Flagged(state.order[i], c)
    THEN Known(state.order[i - 1], c)
    ELSE Known(state.order[i], c)

PortfolioValue(i) ==
    LET q == state.quantities[state.order[i]]
    IN  SumMap([c \in DOMAIN q |-> RMul(q[c], MarkPrice(i, c))])

WeightsSumToOne ==
    Running =>
        \A i \in 1..Len(state.order) :
            LET w == state.weights[state.order[i]]
            IN  \/ SumMap(w) = One
                \/ /\ \A c \in DOMAIN w : w[c] = Zero
                   /\ PortfolioValue(i) = Zero

(***************************************************************************)
(* C4.  After compute returns, the keys of levels are exactly the distinct *)
(* input dates, inserted in ascending order, whatever the order of the     *)
(* input and its duplicates; weights and quantities have the same keys.    *)
(***************************************************************************)
DateKeys ==
    pc = "returned" =>
        /\ DOMAIN state.levels = args.dates
        /\ Range(state.order) = args.dates
        /\ Len(state.order) = Cardinality(args.dates)
        /\ \A i \in 1..(Len(state.order) - 1) :
               state.order[i] < state.order[i + 1]
        /\ DOMAIN state.weights = DOMAIN state.levels
        /\ DOMAIN state.quantities = DOMAIN state.levels

\* A returned call whose input was out of order and held a date twice.
DateKeysWitness ==
    /\ pc = "returned"
    /\ ~args.ascending
    /\ Cardinality(args.dates) >= 2
    /\ Len(date_list) > Cardinality(args.dates)

(***************************************************************************)
(* C5.  Determinism and call isolation: a second compute call on the same  *)
(* calculator with the arguments of the first returns the IndexState the   *)
(* first returned (levels, weights, quantities, price_cache), and a second *)
(* call holds nothing of the first: its price cache and its maps have      *)
(* entries for its own dates only.                                         *)
(***************************************************************************)
Reached == {date_list[j] : j \in 1..(idx - 1)}

Determinism ==
    (Running /\ earlier # NoCall) =>
        /\ \A k \in DOMAIN state.price_cache : k[1] \in Reached
        /\ DOMAIN state.levels = Reached
        /\ DOMAIN state.quantities = Reached
        /\ DOMAIN state.weights = Reached
        /\ (/\ pc = "returned"
            /\ earlier.dates = date_list
            /\ earlier.initial_level = args.initial_level)
               => state = earlier.state

\* The second call has returned what the first did, on a run of three dates
\* that ends with a reconstitution.
DeterminismWitness ==
    /\ pc = "returned"
    /\ earlier.dates = date_list
    /\ Len(date_list) = 3
    /\ locals.reconstitution
    /\ state = earlier.state

(***************************************************************************)
(* C6.  In TOTAL_RETURN mode every date-step t-1 -> t sets                 *)
(* level(t) = level(t-1) * (1 + er_return) * (1 + collateral_rate(t-1)),   *)
(* the rate being that of t-1; hence with flat prices and a constant rate  *)
(* r, after n date-steps level = level(t0) * (1 + r)^n.                    *)
(***************************************************************************)
RECURSIVE RPow(_, _)
RPow(a, n) == IF n = 0 THEN One ELSE RMul(a, RPow(a, n - 1))

FlatPrices ==
    \A k1, k2 \in DOMAIN env.price :
        k1[2] = k2[2] => env.price[k1] = env.price[k2]

ConstantRate(r) == \A d \in DOMAIN env.rate : env.rate[d] = r

TotalReturnAccrual ==
    [][(config = TotalReturn /\ pc = "loop" /\ pc' # "raised") =>
          LET t_prev == date_list[idx - 1]
              t == date_list[idx]
          IN  /\ t_prev \in DOMAIN env'.rate
              /\ \E j \in (Len(calls) + 1)..Len(calls') :
                     calls'[j] = <<"rate", t_prev, "">>
              /\ \A j \in (Len(calls) + 1)..Len(calls') :
                     calls'[j][1] = "rate" => calls'[j][2] = t_prev
              /\ level' = RMul(RMul(level, RAdd(One, locals'.er_return)),
                               RAdd(One, env'.rate[t_prev]))
              /\ state'.levels[t] = level'
              /\ \A r \in {Zero, Rat(1, 10)} :
                     (FlatPrices' /\ ConstantRate(r)') =>
                         level' = RMul(InitialLevel(args.initial_level,
                                                    config.start_level),
                                       RPow(RAdd(One, r), idx - 1))]_vars

\* Two date-steps at flat prices and the constant rate 1/10: 100 -> 121.
TotalReturnAccrualWitness ==
    /\ config = TotalReturn
    /\ Running
    /\ idx = 4
    /\ FlatPrices
    /\ ConstantRate(Rat(1, 10))
    /\ level = R(121)

(***************************************************************************)
(* C7.  On a reconstitution date where the disrupted commodities hold all  *)
(* of the prior notional, every disrupted commodity keeps its previous     *)
(* quantity and every other commodity gets quantity 0.                     *)
(***************************************************************************)
FullyDisrupted(i) ==
    LET q == state.quantities[Prev(i)]
        value == [c \in DOMAIN q |-> RMul(q[c], Known(Prev(i), c))]
        flagged == {c \in DOMAIN q : Flagged(Now(i), c)}
    IN  SumMap([c \in flagged |-> value[c]]) = SumMap(value)

FrozenPortfolio ==
    Running =>
        \A i \in DateSteps :
            (~Holding(i) /\ FullyDisrupted(i)) =>
                \A c \in DOMAIN state.quantities[Now(i)] :
                    state.quantities[Now(i)][c] =
                        IF Flagged(Now(i), c)
                        THEN Get(state.quantities[Prev(i)], c, Zero)
                        ELSE Zero

(***************************************************************************)
(* C8.  compute called with an empty date sequence fails with an error     *)
(* before any provider is invoked and returns no IndexState.               *)
(***************************************************************************)
EmptyDatesRaise ==
    (pc # "idle" /\ args.dates = {}) =>
        /\ pc = "raised"
        /\ error = "ValueError"
        /\ calls = <<>>
        /\ env = NoEnv
        /\ state = EmptyState

EmptyDatesRaiseWitness == pc = "raised" /\ args.dates = {}

(***************************************************************************)
(* C9.  In TOTAL_RETURN mode with no collateral-rate provider, compute     *)
(* over two or more dates fails on the first date-step and returns no      *)
(* IndexState; compute over a single date returns the bootstrap state.     *)
(***************************************************************************)
MissingRateRaise ==
    config = TotalReturnNoRate =>
        /\ Len(date_list) = 1 =>
               /\ pc = "returned"
               /\ error = ""
               /\ DOMAIN state.levels = {date_list[1]}
               /\ state.levels[date_list[1]] = config.start_level
        /\ Len(date_list) >= 2 =>
               \/ pc = "loop" /\ idx = 2
               \/ /\ pc = "raised"
                  /\ error = "ValueError"
                  /\ idx = 3
                  /\ state = EmptyState

\* The call over three dates has failed on its first date-step.
MissingRateRaiseWitness ==
    /\ config = TotalReturnNoRate
    /\ Len(date_list) = 3
    /\ pc = "raised"
    /\ error = "ValueError"

(***************************************************************************)
(* C10.  _normalize: the result has the keys of the raw map; every value   *)
(* is >= 0; if the raw values clamped at 0 sum to <= 0 every value is 0,   *)
(* otherwise each value is max(0, raw) / sum and the result sums to 1.     *)
(***************************************************************************)
NormalizeContract ==
    LET clamped == [c \in DOMAIN raw |->
                       IF RLt(raw[c], Zero) THEN Zero ELSE raw[c]]
        total == SumMap(clamped)
    IN  /\ DOMAIN normalized = DOMAIN raw
        /\ \A c \in DOMAIN normalized : RLe(Zero, normalized[c])
        /\ IF RLe(total, Zero)
           THEN \A c \in DOMAIN normalized : normalized[c] = Zero
           ELSE /\ \A c \in DOMAIN normalized :
                       RMul(normalized[c], total) = clamped[c]
                /\ SumMap(normalized) = One

\* Three keys, one of them negative, and a positive clamped sum.
NormalizeContractWitness ==
    /\ Cardinality(DOMAIN raw) = 3
    /\ \E c \in DOMAIN raw : RLt(raw[c], Zero)
    /\ \E c \in DOMAIN raw : RLt(Zero, raw[c])
    /\ SumMap(normalized) = One

(***************************************************************************)
(* C11.  A date-step t-1 -> t is a reconstitution if and only if some      *)
(* commodity key's normalized target weight at t differs from that at t-1  *)
(* by more than 1e-10, an absent key counting as 0; prices, disruption     *)
(* flags and holdings have no part in the decision.                        *)
(***************************************************************************)
\* The normalized target weight of key k moves by more than 1e-10 from
\* date d1 to date d2.
Moves(d1, d2, k) ==
    LET diff == RAbs(RSub(Get(Target(d1), k, Zero), Get(Target(d2), k, Zero)))
    IN  diff[1] * TolRoot > diff[2] \div TolRoot

ReconstitutionDecision ==
    (Running /\ idx > 2) =>
        (locals.reconstitution <=>
            \E k \in Commodities : Moves(locals.t_prev, locals.t, k))

\* A reconstitution decided by a key absent from the earlier map alone,
\* after a holding step over which B, held and flagged, changed its price.
ReconstitutionDecisionWitness ==
    /\ Running
    /\ idx = 4
    /\ locals.reconstitution
    /\ Holding(1)
    /\ Flagged(2, "B")
    /\ Known(2, "B") # Known(1, "B")
    /\ DOMAIN env.cpw[2] = {"B"}
    /\ DOMAIN env.cpw[3] = {"A", "B"}

(***************************************************************************)
(* C12.  Price memoization: within one compute call the price provider is  *)
(* invoked at most once for each (date, commodity), the safe lookups of a  *)
(* reconstitution included, and every entry of price_cache holds the       *)
(* answer the provider gave for its key.                                   *)
(***************************************************************************)
PriceMemoization ==
    /\ \A i, j \in DOMAIN calls :
           (i < j /\ calls[i][1] = "price") => calls[i] # calls[j]
    /\ Running =>
           \A k \in DOMAIN state.price_cache :
               state.price_cache[k] = env.price[k]

(***************************************************************************)
(* C13.  Safe price fallback: on a reconstitution date t, when the price   *)
(* provider raises for price(t-1, c) of a commodity c of the new target    *)
(* weights that was not held at t-1, compute does not fail: a              *)
(* non-disrupted c gets target_share[c] * remaining_notional / 1.0.  The   *)
(* fallback serves no commodity held at t-1: their prices at t-1 and t     *)
(* were answered, or the run has failed.                                   *)
(***************************************************************************)
\* The provider raises for the price of c on d.
Unavailable(d, c) ==
    <<d, c>> \in DOMAIN env.price /\ env.price[<<d, c>>] = Raise

\* The target weights of t restricted to the commodities that are not
\* disrupted, renormalized.
TargetShare(held, t, disrupted) ==
    Normalize([c \in (held \cup DOMAIN Target(t)) \ disrupted |->
                  Get(Target(t), c, Zero)])

SafePriceFallback ==
    /\ (Running /\ idx > 2 /\ locals.reconstitution) =>
           LET held == DOMAIN state.quantities[locals.t_prev]
               share == TargetShare(held, locals.t, locals.disrupted)
           IN  \A c \in DOMAIN Target(locals.t) \ held :
                   (Unavailable(locals.t_prev, c) /\ c \notin locals.disrupted)
                       => state.quantities[locals.t][c] =
                              RMul(share[c], locals.remaining_notional)
    /\ Running =>
           \A i \in DateSteps :
               \A c \in DOMAIN state.quantities[Prev(i)] :
                   ~Unavailable(Prev(i), c) /\ ~Unavailable(Now(i), c)
    /\ (pc = "raised" /\ error = "ProviderError" /\ idx > 2) =>
           \E c \in Commodities :
               \/ Unavailable(date_list[idx - 2], c)
               \/ Unavailable(date_list[idx - 1], c)

\* The first of two date-steps has bought B, new at date 2, for half of
\* the notional at the price 1.0, the provider having raised for its price
\* at date 1; the run goes on to date 3.
SafePriceFallbackWitness ==
    /\ pc = "loop"
    /\ idx = 3
    /\ locals.reconstitution
    /\ Unavailable(1, "B")
    /\ "B" \notin DOMAIN state.quantities[1]
    /\ state.quantities[2] = [c \in {"A", "B"} |-> R(50)]

(***************************************************************************)
(* C14.  The level recorded for the first date equals the initial_level    *)
(* argument for every numeric value supplied, and the configured           *)
(* start_level only when no initial_level is supplied.                     *)
(***************************************************************************)
FirstLevel ==
    (Running /\ idx = 2) =>
        state.levels[date_list[1]] =
            IF args.initial_level = None THEN config.start_level
            ELSE args.initial_level

(***************************************************************************)
(* C15.  Providers are invoked in date order: within one compute call,     *)
(* for each of the four providers the dates of its successive invocations  *)
(* are non-decreasing, also on reconstitution steps that introduce new     *)
(* commodities.                                                            *)
(***************************************************************************)
InvocationOrder ==
    \A i, j \in DOMAIN calls :
        (i < j /\ calls[i][1] = calls[j][1]) => calls[i][2] <= calls[j][2]

(***************************************************************************)
(* C16.  calculate_contract_weights returns, for any calculation date,     *)
(* exactly one entry per configured commodity, that of the contract of the *)
(* following calendar month, and the returned weights sum to 1.            *)
(***************************************************************************)
\* The month after that of date d, as <<month, year>>.
NextMonth(d) ==
    IF d.month = 12 THEN <<1, d.year + 1>> ELSE <<d.month + 1, d.year>>

\* The symbols of the front-month contracts of date d.
FrontSymbols(d) ==
    {ContractSymbol(c, NextMonth(d)[1], NextMonth(d)[2]) :
        c \in DOMAIN commodity_weights}

ContractWeightsContract ==
    calculator # NoWeightsCall =>
        /\ DOMAIN calculator.contract_weights =
               FrontSymbols(calculator.calculation_date)
        /\ Cardinality(DOMAIN calculator.contract_weights) =
               Cardinality(DOMAIN commodity_weights)
        /\ SumMap(calculator.contract_weights) = One

\* The weights of a December date: the contracts of January of the next
\* year.
ContractWeightsContractWitness ==
    /\ calculator.calculation_date.month = 12
    /\ "WTI012025" \in DOMAIN calculator.contract_weights
    /\ Cardinality(DOMAIN calculator.contract_weights) = 24

(***************************************************************************)
(* C17.  SPGSCIPortfolioManager starts with empty portfolio_weights and no *)
(* last_rebalance_date; after every construct_portfolio(target_date,       *)
(* notional) call, last_rebalance_date is that call's target_date,         *)
(* portfolio_weights is the non-empty map of the contract weights of that  *)
(* date, and every returned position size is strictly positive.            *)
(***************************************************************************)
\* construct_portfolio has been called.
Constructed == manager.target_notional # None

\* What the claim says of the manager's fields.
PortfolioFields ==
    IF Constructed
    THEN /\ manager.last_rebalance_date = manager.target_date
         /\ manager.portfolio_weights =
                calculate_contract_weights(manager.target_date)
         /\ DOMAIN manager.portfolio_weights # {}
    ELSE /\ manager.portfolio_weights = <<>>
         /\ manager.last_rebalance_date = NoDate

PositivePositions ==
    \A symbol \in DOMAIN manager.positions :
        RLt(Zero, manager.positions[symbol])

PortfolioConstruction == PortfolioFields /\ PositivePositions

\* C17 as amended: the position sizes are strictly positive whenever the
\* notional is.
PortfolioConstructionPositive ==
    /\ PortfolioFields
    /\ (Constructed /\ RLt(Zero, manager.target_notional)) =>
           /\ PositivePositions
           /\ DOMAIN manager.positions = DOMAIN manager.portfolio_weights

\* A portfolio of positive notional constructed on a December date, after
\* an earlier construction.
PortfolioConstructionWitness ==
    /\ Constructed
    /\ RLt(Zero, manager.target_notional)
    /\ manager.target_date.month = 12
    /\ "WTI012025" \in DOMAIN manager.positions
    /\ PositivePositions

(***************************************************************************)
(* C18.  Reconstitution allocation: on a reconstitution date t every       *)
(* non-disrupted commodity c of the universe (held at t-1 or in the new    *)
(* target weights) gets target_share[c] * remaining_notional /             *)
(* price(t-1, c), and 0 if that price is 0, where target_share is the      *)
(* date-t target restricted to the non-disrupted commodities and           *)
(* renormalized, remaining_notional = max(total_prev - fixed_notional, 0), *)
(* total_prev is the value of the t-1 holdings at t-1 prices and           *)
(* fixed_notional the part of it held in disrupted commodities.            *)
(***************************************************************************)
\* The allocation of the last date-step, D being the disrupted commodities.
Allocation(D) ==
    LET t_prev == locals.t_prev
        t == locals.t
        q == state.quantities[t_prev]
        universe == DOMAIN q \cup DOMAIN Target(t)
        value == [c \in DOMAIN q |-> RMul(q[c], Known(t_prev, c))]
        total_prev == SumMap(value)
        fixed_notional == SumMap([c \in D \cap DOMAIN q |-> value[c]])
        remaining_notional == RMax(RSub(total_prev, fixed_notional), Zero)
        share == TargetShare(DOMAIN q, t, D)
    IN  \A c \in universe \ D :
            /\ c \in DOMAIN state.quantities[t]
            /\ state.quantities[t][c] =
                   IF Known(t_prev, c) = Zero THEN Zero
                   ELSE RDiv(RMul(share[c], remaining_notional),
                             Known(t_prev, c))

BootstrapHoldings ==
    (Running /\ idx = 2) =>
        LET t0 == date_list[1]
            w0 == Target(t0)
            q == state.quantities[t0]
        IN  /\ DOMAIN q = DOMAIN w0
            /\ \A c \in DOMAIN w0 :
                   /\ Known(t0, c) = Zero => q[c] = Zero
                   /\ Known(t0, c) # Zero =>
                          RMul(q[c], Known(t0, c)) =
                              RMul(w0[c], state.levels[t0])
            /\ (/\ \A c \in DOMAIN w0 : Known(t0, c) # Zero
                /\ RLt(Zero, SumMap(env.cpw[t0])))
                   => SumMap([c \in DOMAIN q |-> RMul(q[c], Known(t0, c))])
                          = state.levels[t0]

\* A bootstrap over two commodities, one of them at the price 0.
BootstrapHoldingsWitness ==
    /\ Running
    /\ idx = 2
    /\ DOMAIN state.quantities[date_list[1]] = {"A", "B"}
    /\ Known(date_list[1], "B") = Zero
    /\ state.quantities[date_list[1]]["A"] = R(25)
    /\ state.quantities[date_list[1]]["B"] = Zero

(***************************************************************************)
(* C20.  Degenerate-portfolio guard: on a date-step where the t-1 holdings *)
(* are worth <= 0 at t-1 prices (empty portfolio, all-zero weights, zero   *)
(* prices), er_return is 0 and the EXCESS_RETURN level does not move; once *)
(* the holdings are all zero the level is constant on every later holding  *)
(* step.                                                                   *)
(***************************************************************************)
\* The value of the holdings of date d at the prices of d.
HoldingsValue(d) ==
    LET q == state.quantities[d]
    IN  SumMap([c \in DOMAIN q |-> RMul(q[c], Known(d, c))])

AllZero(d) == \A c \in DOMAIN state.quantities[d] : state.quantities[d][c] = Zero

DegenerateGuard ==
    Running =>
        /\ (idx > 2 /\ RLe(HoldingsValue(locals.t_prev), Zero)) =>
               locals.er_return = Zero
        /\ \A i \in DateSteps :
               RLe(HoldingsValue(Prev(i)), Zero) =>
                   state.levels[Now(i)] = state.levels[Prev(i)]
        /\ \A i, j \in DateSteps :
               (i <= j /\ AllZero(Prev(i)) /\ \A k \in i..j : Holding(k)) =>
                   state.levels[Now(j)] = state.levels[Prev(i)]

\* B, bought at date 1, is flagged at date 2, where its price is 0: the
\* level stays at 100.  At date 3 its price is 1 again and the holdings of
\* date 2, worth nothing at the prices of date 2, leave the level at 100.
DegenerateGuardWitness ==
    /\ pc = "returned"
    /\ date_list = <<1, 2, 3>>
    /\ DOMAIN state.quantities[2] = {"B"}
    /\ state.quantities[2]["B"] # Zero
    /\ Flagged(2, "B")
    /\ Known(2, "B") = Zero
    /\ Known(3, "B") = One
    /\ ~Flagged(3, "B")
    /\ state.levels[2] = R(100)
    /\ state.levels[3] = R(100)

(***************************************************************************)
(* C21.  Disruption-aware return: on the step t-1 -> t a commodity flagged *)
(* on t is valued at price(t-1, c) on both sides of the return, so         *)
(* level(t) is a function of the holdings, the prices of t-1 and the       *)
(* prices at t of the commodities not flagged; if every held commodity is  *)
(* flagged on t, the return is 0.                                          *)
(***************************************************************************)
\* The value of the holdings of Prev(i) with the commodities flagged on
\* Now(i) at their Prev(i) price and the others at their Now(i) price.
DisruptedValue(i) ==
    LET q == state.quantities[Prev(i)]
    IN  SumMap([c \in DOMAIN q |->
                   RMul(q[c], IF Flagged(Now(i), c) THEN Known(Prev(i), c)
                              ELSE Known(Now(i), c))])

DisruptionAwareReturn ==
    Running =>
        \A i \in DateSteps :
            /\ RLt(Zero, HoldingsValue(Prev(i))) =>
                   RMul(state.levels[Now(i)], HoldingsValue(Prev(i))) =
                       RMul(state.levels[Prev(i)], DisruptedValue(i))
            /\ ~RLt(Zero, HoldingsValue(Prev(i))) =>
                   state.levels[Now(i)] = state.levels[Prev(i)]
            /\ (\A c \in DOMAIN state.quantities[Prev(i)] : Flagged(Now(i), c))
                   => state.levels[Now(i)] = state.levels[Prev(i)]
            /\ (i = Len(state.order) - 1 /\ locals.t = Now(i)
                    /\ \A c \in DOMAIN state.quantities[Prev(i)] :
                           Flagged(Now(i), c))
                   => locals.er_return = Zero

\* Of A and B, both held, B alone is flagged on date 2, where its price
\* has doubled; A is flat, and the level has not moved.
DisruptionAwareReturnWitness ==
    /\ Running
    /\ idx > 2
    /\ DOMAIN state.quantities[1] = {"A", "B"}
    /\ Flagged(2, "B")
    /\ ~Flagged(2, "A")
    /\ Known(1, "B") = R(1)
    /\ Known(2, "B") = R(2)
    /\ state.levels[2] = state.levels[1]

(***************************************************************************)
(* C22.  A price flagged as disrupted is unusable: if the disruption       *)
(* provider flags (d, c), price(d, c) influences no level and no quantity  *)
(* at any date; two compute runs whose inputs differ only in such a        *)
(* flagged price return the same levels and quantities.                    *)
(***************************************************************************)
\* The providers of e with the price of k replaced by the other price of
\* the regular family.
OtherPrice(e, k) ==
    [e EXCEPT !.price[k] = IF @ = R(1) THEN R(2) ELSE R(1)]

\* The flagged prices of the run: asked for, answered, and of B.
FlaggedPrices ==
    {k \in DOMAIN env.price :
        k[2] = "B" /\ env.price[k] # Raise /\ Flagged(k[1], k[2])}

FlaggedPriceUnused ==
    (pc = "returned" /\ error = "") =>
        \A k \in FlaggedPrices :
            LET other == Run(OtherPrice(env, k), config, date_list,
                             args.initial_level)
            IN  /\ other.error = ""
                /\ other.state.levels = state.levels
                /\ other.state.quantities = state.quantities

(***************************************************************************)
(* C23.  Reported weights use the effective valuation: for every date t    *)
(* after the first and every commodity c of quantities(t), weights(t)[c]   *)
(* is quantities(t)[c] * p_eff[c] over the sum of quantities(t)[k] *       *)
(* p_eff[k], p_eff being price(t-1, .) for a commodity flagged on t and    *)
(* price(t, .) otherwise; commodities a reconstitution on t introduces     *)
(* are included.  Stated for inputs without a repeated date.               *)
(***************************************************************************)
NoRepeatedDate == \A j \in 1..(Len(date_list) - 1) : date_list[j] < date_list[j + 1]

EffectiveWeights ==
    (Running /\ NoRepeatedDate) =>
        \A i \in 2..Len(state.order) :
            LET d == state.order[i]
                q == state.quantities[d]
                w == state.weights[d]
            IN  RLt(Zero, PortfolioValue(i)) =>
                    \A c \in DOMAIN q :
                        /\ c \in DOMAIN w
                        /\ RMul(w[c], PortfolioValue(i)) =
                               RMul(q[c], MarkPrice(i, c))

(***************************************************************************)
(* C24.  Universe on reconstitution: on every reconstitution date t the    *)
(* keys of quantities(t) are exactly the commodities held at t-1 together  *)
(* with the commodities of the date-t target weights; no other commodity   *)
(* is added and none is removed.                                           *)
(***************************************************************************)
ReconstitutionUniverse ==
    (Running /\ NoRepeatedDate) =>
        \A i \in DateSteps :
            ~Holding(i) =>
                DOMAIN state.quantities[Now(i)] =
                    DOMAIN state.quantities[Prev(i)] \cup DOMAIN Target(Now(i))

(***************************************************************************)
(* C25.  In EXCESS_RETURN mode, over any run of consecutive date-steps     *)
(* with no reconstitution and no disrupted commodity, while the holdings   *)
(* have positive value, level(tn) = level(t0) * V(tn) / V(t0), V(d) being  *)
(* the unchanged holdings at the prices of d, whatever the prices in       *)
(* between; with flat prices the level does not move.                      *)
(***************************************************************************)
\* The holdings of date h at the prices of date d.
ValueAt(h, d) ==
    LET q == state.quantities[h]
    IN  SumMap([c \in DOMAIN q |-> RMul(q[c], Known(d, c))])

\* On the step i the weights hold, nothing is flagged and the holdings are
\* worth something.
Undisturbed(i) ==
    /\ Holding(i)
    /\ \A c \in Commodities : ~Flagged(Now(i), c)
    /\ RLt(Zero, HoldingsValue(Prev(i)))

HoldingRun(i, j) == i <= j /\ \A k \in i..j : Undisturbed(k)

ExcessReturnPath ==
    (Running /\ config.mode = "ER") =>
        \A i \in DateSteps : \A j \in i..(Len(state.order) - 1) :
            HoldingRun(i, j) =>
                /\ RMul(state.levels[Now(j)], ValueAt(Prev(i), Prev(i))) =
                       RMul(state.levels[Prev(i)], ValueAt(Prev(i), Now(j)))
                /\ (\A c \in DOMAIN state.quantities[Prev(j)] :
                        Known(Now(j), c) = Known(Prev(j), c))
                       => state.levels[Now(j)] = state.levels[Prev(j)]

\* From the level 50, A and B held in equal parts over three dates: B
\* doubles, then falls back, and the level is 50 again after 75.
ExcessReturnPathWitness ==
    /\ pc = "returned"
    /\ config.mode = "ER"
    /\ state.order = <<1, 2, 3>>
    /\ HoldingRun(1, 2)
    /\ DOMAIN state.quantities[1] = {"A", "B"}
    /\ Known(2, "B") = R(2)
    /\ Known(3, "B") = R(1)
    /\ state.levels[1] = R(50)
    /\ state.levels[2] = R(75)
    /\ state.levels[3] = R(50)

(***************************************************************************)
(* C26.  _get_front_month_contract returns, for every calculation date,    *)
(* (month + 1, same year) when the month of the date is January to         *)
(* November and (1, year + 1) when it is December; the month returned is   *)
(* always in 1..12.                                                        *)
(***************************************************************************)
FrontMonthContract ==
    front_call # NoFrontCall =>
        LET d == front_call.calculation_date
        IN  /\ d.month \in 1..11 =>
                   /\ front_call.front_month = d.month + 1
                   /\ front_call.front_year = d.year
            /\ d.month = 12 =>
                   /\ front_call.front_month = 1
                   /\ front_call.front_year = d.year + 1
            /\ front_call.front_month \in 1..12

\* A call on a date of December 2024, answered with January 2025.
FrontMonthContractWitness ==
    /\ front_call.calculation_date.month = 12
    /\ front_call.calculation_date.year = 2024
    /\ front_call.front_month = 1
    /\ front_call.front_year = 2025

(***************************************************************************)
(* C27.  Duplicates do not change the result: compute over a date sequence *)
(* in which some date appears more than once returns the same levels,      *)
(* quantities and weights at every date as compute over the sequence       *)
(* without the repetitions, in either mode.                                *)
(***************************************************************************)
\* The sorted sequence dl with every date kept once.
RECURSIVE Deduplicated(_)
Deduplicated(dl) ==
    IF Len(dl) <= 1 THEN dl
    ELSE IF dl[1] = dl[2] THEN Deduplicated(Tail(dl))
    ELSE <<dl[1]>> \o Deduplicated(Tail(dl))

DuplicatesIgnored ==
    (pc = "returned" /\ error = "" /\ ~NoRepeatedDate) =>
        LET once == Run(env, config, Deduplicated(date_list),
                        args.initial_level)
        IN  /\ once.error = ""
            /\ once.state.levels = state.levels
            /\ once.state.quantities = state.quantities
            /\ once.state.weights = state.weights

(***************************************************************************)
(* C28.  Mode equivalence: for the same dates, initial level and weight,   *)
(* price and disruption providers, a TOTAL_RETURN run and an               *)
(* EXCESS_RETURN run return the same quantities and weights at every       *)
(* date, and the TR level at tn is the ER level at tn multiplied by the    *)
(* product of (1 + collateral_rate(t_i)) over the earlier dates t_i.       *)
(***************************************************************************)
\* The product of 1 + collateral_rate(t_i) over the dates before the n-th.
RECURSIVE Accrued(_)
Accrued(n) ==
    IF n <= 1 THEN One
    ELSE RMul(Accrued(n - 1), RAdd(One, env.rate[state.order[n - 1]]))

ModeEquivalence ==
    (pc = "returned" /\ error = "" /\ config.mode = "TR") =>
        LET er == Run(env, ExcessReturn, date_list, args.initial_level)
        IN  /\ er.error = ""
            /\ er.state.quantities = state.quantities
            /\ er.state.weights = state.weights
            /\ \A n \in 1..Len(state.order) :
                   state.levels[state.order[n]] =
                       RMul(er.state.levels[state.order[n]], Accrued(n))

\* A total-return run over three dates, from the level 50, with the rate
\* 1/10 on the first two and the price of B doubling on the third: the
\* level of the third date is 75 * 1.1 * 1.1 = 90.75.
ModeEquivalenceWitness ==
    /\ pc = "returned"
    /\ config.mode = "TR"
    /\ state.order = <<1, 2, 3>>
    /\ env.rate[1] = Rat(1, 10)
    /\ env.rate[2] = Rat(1, 10)
    /\ DOMAIN state.quantities[3] = {"A", "B"}
    /\ state.levels[3] = Rat(363, 4)

(***************************************************************************)
(* C29.  Reconstitution is self-financing: on every reconstitution date t, *)
(* disrupted commodities or not, when the date-t target weights have a     *)
(* positive sum and every price at t-1 is positive, the new holdings at    *)
(* the prices of t-1 are worth what the old holdings are worth at the      *)
(* prices of t-1; no reconstitution turns a portfolio of positive value    *)
(* into all-zero holdings.                                                 *)
(***************************************************************************)
SelfFinancing ==
    (Running /\ NoRepeatedDate) =>
        \A i \in DateSteps :
            (/\ ~Holding(i)
             /\ RLt(Zero, SumMap(Target(Now(i))))
             /\ \A c \in DOMAIN state.quantities[Now(i)] :
                    RLt(Zero, Known(Prev(i), c)))
                => /\ ValueAt(Now(i), Prev(i)) = ValueAt(Prev(i), Prev(i))
                   /\ RLt(Zero, ValueAt(Prev(i), Prev(i))) => ~AllZero(Now(i))

(***************************************************************************)
(* C30.  Scale invariance of the target weights: if the raw weight map of  *)
(* date t is the raw map of t-1 with every value multiplied by the same    *)
(* positive constant, the step is not a reconstitution and quantities(t)   *)
(* = quantities(t-1); scaling the raw weights of every date by a positive  *)
(* constant leaves the returned IndexState unchanged.  Equality is that of *)
(* exact arithmetic.                                                       *)
(***************************************************************************)
ScaleFactors == {R(3), Rat(1, 3)}

\* The map w with every value multiplied by k.
Scaled(w, k) == [c \in DOMAIN w |-> RMul(w[c], k)]

\* The providers of e with the raw weights of every date multiplied by k.
ScaledWeights(e, k) ==
    [e EXCEPT !.cpw = [d \in DOMAIN e.cpw |-> Scaled(e.cpw[d], k)]]

====
